---- MODULE Spec2Model ----
(***************************************************************************)
(* Model of src/database.rs: the Database data-access layer over the       *)
(* PostgreSQL tables `tokens` and `banlist`.  Each public method is one    *)
(* action; each SQL statement it sends is an operator over the table rows. *)
(***************************************************************************)
EXTENDS Integers, Sequences, FiniteSets, TLC

\* ------------------------------------------------------------------ bounds
\* Number of distinct strings nanoid::generate can return in the model.
NumSecrets == 2
\* Last value the tokens_id_seq sequence hands out in the model.
MaxSeq == 2
\* Last value of the server clock in the model.
MaxClock == 2
\* Number of user ids callers pass to the ban operations.
NumUsers == 2
\* Number of connections that run add_ban concurrently.
NumConns == 2

\* settings::ENV.masterid, the owner of the genesis token.
masterid == 777

Secrets == 1..NumSecrets
Permission == {"User", "Admin", "Root"}
Owners == {masterid, 42}
TokenIds == 1..MaxSeq
Users == 1..NumUsers
Reasons == {"spam", "abuse"}
Conns == 1..NumConns

VARIABLES
    schema,         \* which of the three schema objects exist
    tokens,         \* rows of table tokens, in storage order
    tokens_id_seq,  \* last value handed out by the SERIAL sequence of tokens.id
    banlist,        \* rows of table banlist, in storage order
    now,            \* server clock read by now()
    last,           \* the last method call and what it returned to the caller
    genesisDone,    \* history: a create_genesis_token call has returned Ok
    assigned,       \* history: ids given to rows by create_token
    deleteCalled,   \* history: arguments of delete_token_by_id calls so far
    removed,        \* history: ids of the rows delete_token_by_id calls removed
    banHist,        \* history per user id: last ban operation, its reason, latest date stored
    conn            \* concurrent add_ban callers, one connection each

vars == <<schema, tokens, tokens_id_seq, banlist, now, last, genesisDone,
          assigned, deleteCalled, removed, banHist, conn>>

tokVars == <<tokens, tokens_id_seq, assigned, deleteCalled, removed, genesisDone>>
banVars == <<banlist, banHist>>

\* ------------------------------------------------------------ value shapes
\* Option<T>: None is the empty sequence, Some(x) the one-element sequence.
None == <<>>
Some(x) == <<x>>

\* Struct Token.
Token(id, token, permissions, userid) ==
    [id |-> id, token |-> token, permissions |-> permissions, userid |-> userid]

\* Struct Ban.
Ban(id, reason, date) == [id |-> id, reason |-> reason, date |-> date]

\* What a method call handed back: Ok(val) or Err.
Call(op, args, ok, val) == [op |-> op, args |-> args, ok |-> ok, val |-> val]

\* The rows of a result, without their order.
Range(rows) == {rows[i] : i \in 1..Len(rows)}

\* Vec::pop(): the last element, if any.
Pop(rows) == IF Len(rows) = 0 THEN None ELSE Some(rows[Len(rows)])

\* --------------------------------------------------------------- the schema
\* An empty database, and one holding the three objects setup_tables creates.
NoSchema == [banlist |-> FALSE, permission |-> FALSE, tokens |-> FALSE]
FullSchema == [banlist |-> TRUE, permission |-> TRUE, tokens |-> TRUE]

\* Faulty variant: CREATE TABLE without IF NOT EXISTS fails on an existing table.
CreateTableBroken(s, name) ==
    IF s[name] THEN [ok |-> FALSE, schema |-> s]
    ELSE [ok |-> TRUE, schema |-> [s EXCEPT ![name] = TRUE]]

\* CREATE TABLE IF NOT EXISTS <name>: never an error; an existing table is kept.
CreateTableIfNotExists(s, name) ==
    [ok |-> TRUE, schema |-> [s EXCEPT ![name] = TRUE]]

\* DO $$ IF NOT EXISTS (... typname = 'permission') THEN CREATE TYPE permission.
CreatePermissionEnum(s) ==
    IF ~s.permission
    THEN [ok |-> TRUE, schema |-> [s EXCEPT !.permission = TRUE]]
    ELSE [ok |-> TRUE, schema |-> s]

\* The three statements of setup_tables in order; `?` returns at the first error.
SetupResult(s) ==
    LET r1 == CreateTableIfNotExists(s, "banlist") IN
    IF ~r1.ok THEN r1 ELSE
    LET r2 == CreatePermissionEnum(r1.schema) IN
    IF ~r2.ok THEN r2 ELSE
    CreateTableIfNotExists(r2.schema, "tokens")

\* --------------------------------------------------------- token statements
\* SELECT * FROM tokens WHERE id = $1
SelectTokensById(rows, id) == SelectSeq(rows, LAMBDA r : r.id = id)

\* SELECT * FROM tokens WHERE token = $1
SelectTokensByToken(rows, token) == SelectSeq(rows, LAMBDA r : r.token = token)

\* get_tokens: every row.
get_tokens(rows) == rows

\* get_token_by_id: the query's last row.
get_token_by_id(rows, token_id) == Pop(SelectTokensById(rows, token_id))

\* get_token: the query's last row.
get_token(rows, token) == Pop(SelectTokensByToken(rows, token))

\* Faulty variant: token is not a key, so an equal secret is inserted again.
InsertTokenNoKey(rows, id, token, permission, userid) ==
    [ok |-> TRUE, rows |-> Append(rows, Token(id, token, permission, userid))]

\* Faulty variant: the id is one more than the id of the newest row kept.
InsertTokenMaxId(rows, id, token, permission, userid) ==
    LET top == IF Len(rows) = 0 THEN 0 ELSE rows[Len(rows)].id IN
    IF \E i \in 1..Len(rows) : rows[i].token = token
    THEN [ok |-> FALSE, rows |-> rows]
    ELSE [ok |-> TRUE, rows |-> Append(rows, Token(top + 1, token, permission, userid))]

\* Faulty variant: the permission parameter is not bound; every row is a User row.
InsertTokenSwapped(rows, id, token, permission, userid) ==
    IF \E i \in 1..Len(rows) : rows[i].token = token
    THEN [ok |-> FALSE, rows |-> rows]
    ELSE [ok |-> TRUE, rows |-> Append(rows, Token(id, token, "User", userid))]

\* INSERT INTO tokens (token, permissions, userid): id defaults to
\* nextval(tokens_id_seq); token is the PRIMARY KEY, so a row with an equal
\* token makes the statement fail and leaves the table as it was.
InsertToken(rows, id, token, permission, userid) ==
    IF \E i \in 1..Len(rows) : rows[i].token = token
    THEN [ok |-> FALSE, rows |-> rows]
    ELSE [ok |-> TRUE, rows |-> Append(rows, Token(id, token, permission, userid))]

\* Faulty variant: DELETE FROM tokens WHERE id <= $1
DeleteTokensUpTo(rows, id) == SelectSeq(rows, LAMBDA r : r.id > id)

\* DELETE FROM tokens WHERE id = $1
DeleteTokensById(rows, id) == SelectSeq(rows, LAMBDA r : r.id # id)

\* ------------------------------------------------------------------- Init
Init ==
    /\ schema = NoSchema
    /\ tokens = <<>>
    /\ tokens_id_seq = 0
    /\ banlist = <<>>
    /\ now = 0
    /\ last = Call("new", <<>>, TRUE, <<>>)
    /\ genesisDone = FALSE
    /\ assigned = {}
    /\ deleteCalled = {}
    /\ removed = {}
    /\ banHist = [u \in Users |-> [op |-> "none", reason |-> "", maxDate |-> 0]]
    /\ conn = [c \in Conns |-> [pc |-> "idle", uid |-> 0, reason |-> "", ok |-> TRUE]]

\* ---------------------------------------------------------------- actions
\* One action per method of Database.  The methods on a table are called once
\* setup_tables has created it (it runs at every startup); a statement on a
\* missing table is not part of the model.  create_token stops at MaxSeq.
\* setup_tables
setup_tables ==
    LET r == SetupResult(schema) IN
    /\ schema' = r.schema
    /\ last' = Call("setup_tables", <<>>, r.ok, <<>>)
    /\ UNCHANGED <<tokVars, banVars, now, conn>>

\* create_token(permission, userid), with `token` the string nanoid generated.
create_token(permission, userid, token) ==
    /\ schema.tokens
    /\ tokens_id_seq < MaxSeq
    /\ LET id == tokens_id_seq + 1
           r == InsertToken(tokens, id, token, permission, userid) IN
       /\ tokens_id_seq' = id
       /\ tokens' = r.rows
       /\ assigned' = IF r.ok THEN assigned \cup {r.rows[Len(r.rows)].id} ELSE assigned
       /\ last' = Call("create_token", <<permission, userid, token>>, r.ok,
                       IF r.ok THEN Some(token) ELSE None)
    /\ UNCHANGED <<schema, banVars, now, conn, deleteCalled, removed, genesisDone>>

\* create_genesis_token: SELECT ... WHERE id = 1, then create_token when empty.
\* val is the secret written to the log, if any.
create_genesis_token ==
    /\ schema.tokens
    /\ IF Len(SelectTokensById(tokens, 1)) = 0
       THEN /\ tokens_id_seq < MaxSeq
            /\ \E token \in Secrets :
                 LET id == tokens_id_seq + 1
                     r == InsertToken(tokens, id, token, "Root", masterid) IN
                 /\ tokens_id_seq' = id
                 /\ tokens' = r.rows
                 /\ assigned' = IF r.ok THEN assigned \cup {r.rows[Len(r.rows)].id}
                                ELSE assigned
                 /\ genesisDone' = (genesisDone \/ r.ok)
                 /\ last' = Call("create_genesis_token", <<token>>, r.ok,
                                 IF r.ok THEN Some(token) ELSE None)
       ELSE /\ genesisDone' = TRUE
            /\ last' = Call("create_genesis_token", <<>>, TRUE, None)
            /\ UNCHANGED <<tokens, tokens_id_seq, assigned>>
    /\ UNCHANGED <<schema, banVars, now, conn, deleteCalled, removed>>

\* delete_token_by_id(token_id)
delete_token_by_id(token_id) ==
    /\ schema.tokens
    /\ tokens' = DeleteTokensById(tokens, token_id)
    /\ deleteCalled' = deleteCalled \cup {token_id}
    /\ removed' = removed \cup {tokens[i].id : i \in {j \in 1..Len(tokens) : tokens[j] \notin Range(tokens')}}
    /\ last' = Call("delete_token_by_id", <<token_id>>, TRUE, <<>>)
    /\ UNCHANGED <<schema, tokens_id_seq, assigned, genesisDone, banVars, now, conn>>

\* get_tokens / get_token_by_id / get_token: reads.
get_tokens_call ==
    /\ schema.tokens
    /\ last' = Call("get_tokens", <<>>, TRUE, get_tokens(tokens))
    /\ UNCHANGED <<schema, tokVars, banVars, now, conn>>

get_token_by_id_call(token_id) ==
    /\ schema.tokens
    /\ last' = Call("get_token_by_id", <<token_id>>, TRUE, get_token_by_id(tokens, token_id))
    /\ UNCHANGED <<schema, tokVars, banVars, now, conn>>

get_token_call(token) ==
    /\ schema.tokens
    /\ last' = Call("get_token", <<token>>, TRUE, get_token(tokens, token))
    /\ UNCHANGED <<schema, tokVars, banVars, now, conn>>

\* ----------------------------------------------------------- ban statements
\* SELECT * FROM banlist WHERE id = $1
SelectBansById(rows, user_id) == SelectSeq(rows, LAMBDA r : r.id = user_id)

\* get_bans: every row.
get_bans(rows) == rows

\* get_ban: the query's last row.
get_ban(rows, user_id) == Pop(SelectBansById(rows, user_id))

\* Faulty variant: ON CONFLICT (id) DO NOTHING keeps the old reason and date.
UpsertBanDoNothing(rows, user_id, reason, date) ==
    IF \E i \in 1..Len(rows) : rows[i].id = user_id
    THEN [ok |-> TRUE, rows |-> rows]
    ELSE [ok |-> TRUE, rows |-> Append(rows, Ban(user_id, reason, date))]

\* INSERT INTO banlist VALUES ($1, $2, now()) ON CONFLICT (id) DO UPDATE SET
\* reason = EXCLUDED.reason, date = excluded.date: one statement that appends
\* the row, or overwrites reason and date of the row holding the id.
UpsertBan(rows, user_id, reason, date) ==
    IF \E i \in 1..Len(rows) : rows[i].id = user_id
    THEN [ok |-> TRUE,
          rows |-> [i \in 1..Len(rows) |->
                      IF rows[i].id = user_id THEN Ban(user_id, reason, date)
                      ELSE rows[i]]]
    ELSE [ok |-> TRUE, rows |-> Append(rows, Ban(user_id, reason, date))]

\* DELETE FROM banlist WHERE id = $1
DeleteBansById(rows, user_id) == SelectSeq(rows, LAMBDA r : r.id # user_id)

\* The later of two clock readings.
Max(a, b) == IF a >= b THEN a ELSE b

\* add_ban(user_id, reason)
add_ban(user_id, reason) ==
    /\ schema.banlist
    /\ LET r == UpsertBan(banlist, user_id, reason, now) IN
       /\ banlist' = r.rows
       /\ banHist' = [banHist EXCEPT ![user_id] =
                        [op |-> "add", reason |-> reason, maxDate |-> Max(@.maxDate, now)]]
       /\ last' = Call("add_ban", <<user_id, reason>>, r.ok, <<>>)
    /\ UNCHANGED <<schema, tokVars, now, conn>>

\* delete_ban(user_id)
delete_ban(user_id) ==
    /\ schema.banlist
    /\ banlist' = DeleteBansById(banlist, user_id)
    /\ banHist' = [banHist EXCEPT ![user_id] =
                     [op |-> "delete", reason |-> "", maxDate |-> @.maxDate]]
    /\ last' = Call("delete_ban", <<user_id>>, TRUE, <<>>)
    /\ UNCHANGED <<schema, tokVars, now, conn>>

\* get_ban / get_bans: reads.
get_ban_call(user_id) ==
    /\ schema.banlist
    /\ last' = Call("get_ban", <<user_id>>, TRUE, get_ban(banlist, user_id))
    /\ UNCHANGED <<schema, tokVars, banVars, now, conn>>

get_bans_call ==
    /\ schema.banlist
    /\ last' = Call("get_bans", <<>>, TRUE, get_bans(banlist))
    /\ UNCHANGED <<schema, tokVars, banVars, now, conn>>

\* The server clock now() reads; it does not run backwards.
Tick ==
    /\ now < MaxClock
    /\ now' = now + 1
    /\ UNCHANGED <<schema, tokVars, banVars, last, conn>>

\* ------------------------------------------- concurrent callers of add_ban
\* Connection c calls add_ban(user_id, reason): the statement is on its way.
ConcCall(c, user_id, reason) ==
    /\ schema.banlist
    /\ conn[c].pc = "idle"
    /\ conn' = [conn EXCEPT ![c] = [pc |-> "sent", uid |-> user_id,
                                    reason |-> reason, ok |-> TRUE]]
    /\ UNCHANGED <<schema, tokVars, banVars, now, last>>

\* Faulty variant: the caller reads the row first (SELECT) and writes in a
\* second statement (INSERT or UPDATE), so other connections run in between.
ConcExecReadThenWrite(c) ==
    LET u == conn[c].uid
        found == \E i \in 1..Len(banlist) : banlist[i].id = u IN
    \/ /\ conn[c].pc = "sent"
       /\ conn' = [conn EXCEPT ![c].pc = IF found THEN "read_found" ELSE "read_absent"]
       /\ UNCHANGED <<schema, tokVars, banVars, now, last>>
    \/ /\ conn[c].pc = "read_absent"
       /\ banlist' = IF found THEN banlist
                     ELSE Append(banlist, Ban(u, conn[c].reason, now))
       /\ conn' = [conn EXCEPT ![c].pc = "done", ![c].ok = ~found]
       /\ UNCHANGED <<schema, tokVars, banHist, now, last>>
    \/ /\ conn[c].pc = "read_found"
       /\ banlist' = [i \in 1..Len(banlist) |->
                        IF banlist[i].id = u THEN Ban(u, conn[c].reason, now)
                        ELSE banlist[i]]
       /\ conn' = [conn EXCEPT ![c].pc = "done"]
       /\ UNCHANGED <<schema, tokVars, banHist, now, last>>

\* The server runs the one statement of connection c's add_ban, and the call returns.
ConcExec(c) ==
    /\ conn[c].pc = "sent"
    /\ LET r == UpsertBan(banlist, conn[c].uid, conn[c].reason, now) IN
       /\ banlist' = r.rows
       /\ banHist' = [banHist EXCEPT ![conn[c].uid] =
                        [op |-> "add", reason |-> conn[c].reason,
                         maxDate |-> Max(@.maxDate, now)]]
       /\ conn' = [conn EXCEPT ![c].pc = "done", ![c].ok = r.ok]
    /\ UNCHANGED <<schema, tokVars, now, last>>

\* ---------------------------------------------------------- specifications
\* The token operations, with one ban the token operations must leave alone.
Next ==
    \/ setup_tables
    \/ \E p \in Permission, u \in Owners, t \in Secrets : create_token(p, u, t)
    \/ create_genesis_token
    \/ \E k \in TokenIds : delete_token_by_id(k)
    \/ get_tokens_call
    \/ \E k \in TokenIds : get_token_by_id_call(k)
    \/ \E t \in Secrets : get_token_call(t)
    \/ add_ban(1, "spam")
    \/ delete_ban(1)

Spec == Init /\ [][Next]_vars

\* The ban operations.
NextBans ==
    \/ setup_tables
    \/ \E u \in Users, r \in Reasons : add_ban(u, r)
    \/ \E u \in Users : delete_ban(u)
    \/ \E u \in Users : get_ban_call(u)
    \/ get_bans_call
    \/ Tick

SpecBans == Init /\ [][NextBans]_vars

\* The token operations from the state startup leaves: setup_tables and
\* create_genesis_token have run on an empty database.
InitStarted ==
    /\ schema = FullSchema
    /\ \E token \in Secrets :
         /\ tokens = <<Token(1, token, "Root", masterid)>>
         /\ last = Call("create_genesis_token", <<token>>, TRUE, Some(token))
    /\ tokens_id_seq = 1
    /\ banlist = <<>>
    /\ now = 0
    /\ genesisDone = TRUE
    /\ assigned = {1}
    /\ deleteCalled = {}
    /\ removed = {}
    /\ banHist = [u \in Users |-> [op |-> "none", reason |-> "", maxDate |-> 0]]
    /\ conn = [c \in Conns |-> [pc |-> "idle", uid |-> 0, reason |-> "", ok |-> TRUE]]

SpecStarted == InitStarted /\ [][Next]_vars

\* Several connections, each running add_ban once, after startup.
InitConc ==
    /\ schema = FullSchema
    /\ tokens = <<>>
    /\ tokens_id_seq = 0
    /\ banlist = <<>>
    /\ now = 0
    /\ last = Call("setup_tables", <<>>, TRUE, <<>>)
    /\ genesisDone = FALSE
    /\ assigned = {}
    /\ deleteCalled = {}
    /\ removed = {}
    /\ banHist = [u \in Users |-> [op |-> "none", reason |-> "", maxDate |-> 0]]
    /\ conn = [c \in Conns |-> [pc |-> "idle", uid |-> 0, reason |-> "", ok |-> TRUE]]

NextConc ==
    \/ \E c \in Conns, u \in Users, r \in Reasons : ConcCall(c, u, r)
    \/ \E c \in Conns : ConcExec(c)
    \/ Tick

SpecConc == InitConc /\ [][NextConc]_vars

\* ------------------------------------------------------------------ claims
\* The ids of the rows of tokens.
IdsOf(rows) == {rows[i].id : i \in 1..Len(rows)}

\* C1: once a create_genesis_token call has returned Ok, every later
\* create_genesis_token call inserts no token row and writes no secret to
\* the log, and no state holds two rows with id 1.
C1_GenesisIdempotent ==
    [][(genesisDone /\ last'.op = "create_genesis_token")
         => /\ tokens' = tokens
            /\ last'.val = None
            /\ Len(SelectTokensById(tokens', 1)) <= 1]_vars

\* C2: in every state after the first successful create_genesis_token call,
\* exactly one token row has id 1, and it is the genesis token: permission
\* Root, owned by masterid.
C2_GenesisRowInvariant ==
    genesisDone =>
        /\ Len(SelectTokensById(tokens, 1)) = 1
        /\ SelectTokensById(tokens, 1)[1].permissions = "Root"
        /\ SelectTokensById(tokens, 1)[1].userid = masterid

\* C3: no two rows of tokens hold the same secret, so get_token's query
\* matches at most one row for any secret.
C3_SecretUnique ==
    /\ \A i, j \in 1..Len(tokens) : tokens[i].token = tokens[j].token => i = j
    /\ \A t \in Secrets : Len(SelectTokensByToken(tokens, t)) <= 1

\* C3 witness: create_token generated a secret a row already holds.
C3_Witness ==
    /\ last.op = "create_token"
    /\ ~last.ok
    /\ Len(SelectTokensByToken(tokens, last.args[3])) = 1

\* C4: after a successful create_token(permission, userid) that returned S,
\* get_token(S) returns a record with token S, that permission and that userid.
C4_CreateThenGet ==
    (last.op = "create_token" /\ last.ok) =>
        LET got == get_token(tokens, last.val[1]) IN
        /\ got # None
        /\ got[1].token = last.val[1]
        /\ got[1].permissions = last.args[1]
        /\ got[1].userid = last.args[2]

\* C4 witness: an Admin token for user 42 was created beside an older row.
C4_Witness ==
    /\ last.op = "create_token"
    /\ last.ok
    /\ last.args[1] = "Admin"
    /\ last.args[2] = 42
    /\ Len(tokens) = 2

\* C5: banlist holds at most one row per user id; get_ban(uid) is None when
\* uid was never banned or its last ban operation was delete_ban, and
\* otherwise the one row with the reason of the latest add_ban(uid, reason)
\* and a date not before any date an earlier add_ban stored for uid.
C5_BanUpsert ==
    \A u \in Users :
        /\ Len(SelectBansById(banlist, u)) <= 1
        /\ banHist[u].op \in {"none", "delete"} => get_ban(banlist, u) = None
        /\ banHist[u].op = "add" =>
             /\ get_ban(banlist, u) # None
             /\ get_ban(banlist, u)[1].id = u
             /\ get_ban(banlist, u)[1].reason = banHist[u].reason
             /\ get_ban(banlist, u)[1].date >= banHist[u].maxDate

\* C5 witness: user 1 was banned, then banned again later with another reason.
C5_Witness ==
    /\ last.op = "add_ban"
    /\ last.args = <<1, "abuse">>
    /\ banHist[1].maxDate > 0
    /\ get_ban(banlist, 1) = Some(Ban(1, "abuse", now))
    /\ Len(banlist) = 2

\* C6: delete_token_by_id(id) returns Ok and removes exactly the token rows
\* with that id; every other token row and every ban row stays; with no such
\* row get_tokens returns what it returned before, and the secret of a
\* removed row is no longer found by get_token.
C6_DeleteFrame ==
    [][last'.op = "delete_token_by_id" =>
         LET k == last'.args[1] IN
         /\ last'.ok
         /\ tokens' = SelectSeq(tokens, LAMBDA r : r.id # k)
         /\ banlist' = banlist
         /\ (k \notin IdsOf(tokens) => get_tokens(tokens') = get_tokens(tokens))
         /\ \A i \in 1..Len(tokens) :
              tokens[i].id = k => get_token(tokens', tokens[i].token) = None]_vars

\* C6 witness: a delete removed a row while another token row and a ban row stayed.
C6_Witness ==
    /\ last.op = "delete_token_by_id"
    /\ last.args[1] \in removed
    /\ get_token_by_id(tokens, last.args[1]) = None
    /\ Len(tokens) = 1
    /\ Len(banlist) = 1

\* C7: add_ban is one atomic statement: a connection that sent it is next
\* done; no concurrent call fails; right after a call's statement ran there is
\* exactly one row for its user id, holding its reason; and when every caller
\* is done each user id some caller passed has exactly one row whose reason
\* is the reason of one of those callers.
C7_Step ==
    \A c \in Conns :
        /\ conn[c].pc = "sent" => conn'[c].pc \in {"sent", "done"}
        /\ (conn[c].pc # "done" /\ conn'[c].pc = "done") =>
             /\ conn'[c].ok
             /\ Len(SelectBansById(banlist', conn[c].uid)) = 1
             /\ get_ban(banlist', conn[c].uid)[1].reason = conn[c].reason
             /\ \A u \in Users \ {conn[c].uid} :
                  SelectBansById(banlist', u) = SelectBansById(banlist, u)

C7_Final ==
    (\A c \in Conns : conn[c].pc = "done") =>
        /\ \A c \in Conns : conn[c].ok
        /\ \A u \in Users :
             LET passed == {conn[c].reason : c \in {d \in Conns : conn[d].uid = u}} IN
             IF passed = {} THEN SelectBansById(banlist, u) = <<>>
             ELSE /\ Len(SelectBansById(banlist, u)) = 1
                  /\ get_ban(banlist, u)[1].reason \in passed

C7_ConcurrentUpsert == [][C7_Step]_vars /\ []C7_Final

\* C7 witness: both connections banned user 1 with different reasons and are done.
C7_Witness ==
    /\ \A c \in Conns : conn[c].pc = "done" /\ conn[c].uid = 1
    /\ conn[1].reason # conn[2].reason
    /\ Len(banlist) = 1

\* C8: when create_token generates the secret of an existing row it returns
\* an error, inserts nothing and leaves the rows of tokens as they were.
C8_CollisionIsError ==
    [][(last'.op = "create_token"
          /\ \E i \in 1..Len(tokens) : tokens[i].token = last'.args[3])
         => /\ ~last'.ok
            /\ last'.val = None
            /\ tokens' = tokens]_vars

\* C8 witness: a create_token call failed on a table that holds its secret.
C8_Witness ==
    /\ last.op = "create_token"
    /\ ~last.ok
    /\ tokens # <<>>
    /\ tokens_id_seq > Len(tokens)

\* C9: every setup_tables call returns Ok and leaves the schema with banlist,
\* permission and tokens, which a further call would leave as it is; token
\* rows and ban rows are unchanged.
C9_SetupIdempotent ==
    [][last'.op = "setup_tables" =>
         /\ last'.ok
         /\ schema' = FullSchema
         /\ SetupResult(schema') = [ok |-> TRUE, schema |-> schema']
         /\ schema = FullSchema => schema' = schema
         /\ tokens' = tokens
         /\ banlist' = banlist]_vars

\* C9 witness: setup_tables ran again on a database that holds rows.
C9_Witness ==
    /\ last.op = "setup_tables"
    /\ last.ok
    /\ Len(tokens) > 0
    /\ Len(banlist) > 0

\* A row a step adds gets an id above every id create_token gave before.
IdsIncrease ==
    \A i \in 1..Len(tokens') :
        tokens'[i] \notin Range(tokens) =>
            \A k \in assigned \cup IdsOf(tokens) \cup {0} : tokens'[i].id > k

\* No two rows of tokens share an id.
NoSharedId == \A i, j \in 1..Len(tokens) : tokens[i].id = tokens[j].id => i = j

\* C10 as stated: ids only grow, no two rows share an id, and get_token_by_id(k)
\* finds no row once delete_token_by_id(k) has been called.
C10_AsStated ==
    /\ [][IdsIncrease]_vars
    /\ [](NoSharedId /\ \A k \in deleteCalled : get_token_by_id(tokens, k) = None)

\* C10 amended: ids only grow, no two rows share an id, and get_token_by_id(k)
\* finds no row once a delete_token_by_id(k) call has removed a row with id k.
C10_IdsNeverReused ==
    /\ [][IdsIncrease]_vars
    /\ [](NoSharedId /\ \A k \in removed : get_token_by_id(tokens, k) = None)

\* C10 witness: id 1 was removed and the next create_token gave id 2.
C10_Witness ==
    /\ 1 \in removed
    /\ last.op = "create_token"
    /\ last.ok
    /\ IdsOf(tokens) = {2}

====
